---------------------------- MODULE Spec2Model ----------------------------
(***************************************************************************)
(* A model of the execution core of dt (a small concatenative language):   *)
(* the value model, the lexical context chain (deeper / higher), the       *)
(* dictionary, the evaluator run_quote / RailDef::act and the control-flow *)
(* builtins do, doin, def, def?, undef and opt.                            *)
(*                                                                         *)
(* The string and comment modes are those of lib.rs; the quotation mode,   *)
(* the detached context and everything else are those of rail_machine.rs.  *)
(*                                                                         *)
(* A RailState is a record [stack, dictionary, context].  Every panic and  *)
(* every process::exit of the source is a Fatal outcome: the operation     *)
(* yields no RailState, and the process ends.                              *)
(***************************************************************************)
EXTENDS Integers, Sequences, FiniteSets, TLC

VARIABLES
    st,      \* the RailState threaded through the token stream
    exit,    \* Running, or the Fatal outcome that ended the process
    last,    \* the input handled last: [op, arg]
    saved,   \* history: the stack as it was at each nested mode still open,
             \* and the operands of the comparison made
    defined, \* history: the names whose latest def / undef was a def
    latest,  \* history: the quote each user word was bound to by its last def
    open,    \* history: the enters counted, less the exits that returned
    literal  \* history: the string literal being built: the state it was
             \* entered from and the text signals handled since

vars == <<st, exit, last, saved, defined, latest, open, literal>>

---------------------------------------------------------------------------
(* Bounds of the model.                                                    *)

\* longest operand stack the model starts an evaluation from
MaxStack == 3
\* most values (nested ones counted) a context-machine state holds
MaxSize == 4
\* deepest nesting of open quotations the model explores
MaxDepth == 3
\* deepest nesting of run_quote calls before evaluation counts as diverged
MaxCallDepth == 6
\* largest integer, and largest float, compared
MaxNum == 2
\* longest quote compared
MaxQuoteLen == 2
\* most characters appended to one string literal
MaxText == 4
\* most string literals a run of the lexical modes reads
MaxStrings == 1
\* most values (nested ones counted) a state of the lexical modes holds
MaxLexSize == 2
\* deepest nesting of lexical modes the model explores
MaxLexDepth == 2
\* most (condition, action) pairs in a generated options quote
MaxPairs == 2
\* most values (nested ones counted) a state of a top-level session holds
MaxTopSize == 3

---------------------------------------------------------------------------
(* RailVal: the tagged union of values.                                    *)

Boolean(b) == [t |-> "Boolean", v |-> b]
I64(n) == [t |-> "I64", v |-> n]
\* an F64 holds a dyadic number; v is twice its value
F64(n2) == [t |-> "F64", v |-> n2]
Command(name) == [t |-> "Command", v |-> name]
Quote(values) == [t |-> "Quote", v |-> values]
String(s) == [t |-> "String", v |-> s]

(* Quote: push appends at the end, pop removes the last element.           *)
QuoteNew == <<>>
push(stack, term) == Append(stack, term)
Top(stack) == stack[Len(stack)]
Rest(stack) == SubSeq(stack, 1, Len(stack) - 1)

(* Outcomes that are not a RailState.                                      *)
Fatal(kind, word) == [fatal |-> kind, word |-> word]
Running == Fatal("none", "")
IsFatal(x) == "fatal" \in DOMAIN x

\* Vec::pop().unwrap() on an empty stack, or the type panic of pop_<T>
pop_panic(stack, context) ==
    IF stack = <<>> THEN Fatal("unwrap_none", context)
    ELSE Fatal("type_mismatch", context)
\* whether pop_<T> succeeds on this stack
can_pop(stack, type) == stack # <<>> /\ Top(stack).t = type

---------------------------------------------------------------------------
(* Context: the chain of lexical modes.                                    *)

Main == [kind |-> "Main"]
None == [kind |-> "None"]
Quotation(parent_context, parent_stack) ==
    [kind |-> "Quotation", parent_context |-> parent_context,
     parent_stack |-> parent_stack]

\* the two literal modes of the loader: a string or a comment being read
StringContext(parent_context) ==
    [kind |-> "String", parent_context |-> parent_context]
Comment(parent_context) ==
    [kind |-> "Comment", parent_context |-> parent_context]

Nested == {"Quotation", "String", "Comment"}

RECURSIVE ContextDepth(_)
ContextDepth(context) ==
    IF context.kind \in Nested
    THEN 1 + ContextDepth(context.parent_context)
    ELSE 0

---------------------------------------------------------------------------
(* RailDef and the dictionary.                                             *)

Builtin(name, consumes, produces) ==
    [name |-> name, consumes |-> consumes, produces |-> produces,
     action |-> [kind |-> "Builtin", quote |-> <<>>]]

from_quote(name, quote) ==
    [name |-> name, consumes |-> <<>>, produces |-> <<>>,
     action |-> [kind |-> "Quotation", quote |-> quote]]

builtins ==
    { Builtin("do", <<"quot">>, <<"...">>),
      Builtin("doin", <<"quot", "quot">>, <<"quot">>),
      Builtin("def", <<"quot", "s">>, <<>>),
      Builtin("def?", <<"s">>, <<"bool">>),
      Builtin("undef", <<"s">>, <<>>),
      Builtin("opt", <<"seq">>, <<>>) }

new_dictionary ==
    [name \in {d.name : d \in builtins} |->
        CHOOSE d \in builtins : d.name = name]

insert(dictionary, name, def_) ==
    [n \in DOMAIN dictionary \cup {name} |->
        IF n = name THEN def_ ELSE dictionary[n]]
remove(dictionary, name) ==
    [n \in DOMAIN dictionary \ {name} |-> dictionary[n]]

---------------------------------------------------------------------------
(* RailState.                                                              *)

RailState(stack, dictionary, context) ==
    [stack |-> stack, dictionary |-> dictionary, context |-> context]

RailStateDefault == RailState(QuoteNew, new_dictionary, Main)

\* replace_stack, building the state in the Main context
replace_stack_in_main(self, stack) ==
    RailState(stack, self.dictionary, Main)

replace_stack(self, stack) ==
    RailState(stack, self.dictionary, self.context)

\* contextless_child, starting the child on top of the caller's stack
contextless_child_shared(self, stack) ==
    RailState(self.stack \o stack, self.dictionary, None)

contextless_child(self, stack) ==
    RailState(stack, self.dictionary, None)

deeper(self) ==
    RailState(QuoteNew, self.dictionary,
              Quotation(self.context, self.stack))

\* higher, splicing the nested stack into the parent instead of wrapping it
higher_splice(self) ==
    IF self.context.kind = "Quotation"
    THEN RailState(self.context.parent_stack \o self.stack,
                   self.dictionary, self.context.parent_context)
    ELSE Fatal("escape", "higher")

higher(self) ==
    IF self.context.kind = "Quotation"
    THEN RailState(push(self.context.parent_stack, Quote(self.stack)),
                   self.dictionary, self.context.parent_context)
    ELSE Fatal("escape", "higher")

in_main(self) == self.context.kind = "Main"
in_string(self) == self.context.kind = "String"
in_comment(self) == self.context.kind = "Comment"

\* enter-string: the string being built is pushed, empty, on the stack
enter_string(self) ==
    RailState(push(self.stack, String("")), self.dictionary,
              StringContext(self.context))

\* append_string_exact, on a stack whose last element is the string built
append_string_exact(self, s) ==
    IF ~can_pop(self.stack, "String")
    THEN pop_panic(self.stack, "string_parser")
    ELSE replace_stack(self,
            push(Rest(self.stack), String(Top(self.stack).v \o s)))

\* append_string, without the space
append_string_unspaced(self, s) == append_string_exact(self, s)

\* append_string: a space, then the text
append_string(self, s) ==
    LET spaced == append_string_exact(self, " ")
    IN  IF IsFatal(spaced) THEN spaced ELSE append_string_exact(spaced, s)

\* exit_string, returning the state as it is when no string is being built
exit_string_lenient(self) ==
    IF in_string(self)
    THEN RailState(self.stack, self.dictionary, self.context.parent_context)
    ELSE self

\* exit-string: back to the context the string was entered from
exit_string(self) ==
    IF in_string(self)
    THEN RailState(self.stack, self.dictionary, self.context.parent_context)
    ELSE Fatal("escape", "exit_string")

enter_comment(self) ==
    RailState(self.stack, self.dictionary, Comment(self.context))

\* exit_comment, returning to Main whatever the comment was entered from
exit_comment_to_main(self) ==
    IF in_comment(self)
    THEN RailState(self.stack, self.dictionary, Main)
    ELSE Fatal("escape", "exit_comment")

exit_comment(self) ==
    IF in_comment(self)
    THEN RailState(self.stack, self.dictionary, self.context.parent_context)
    ELSE Fatal("escape", "exit_comment")

---------------------------------------------------------------------------
(* The evaluator and the builtins.  depth counts the run_quote calls that  *)
(* are open: the source recurses on the native stack without a limit, the  *)
(* model stops at MaxCallDepth with the outcome "diverged".                *)

RECURSIVE run_quote(_, _, _)
RECURSIVE run_from(_, _, _, _)
RECURSIVE act(_, _, _)
RECURSIVE native(_, _, _)
RECURSIVE do_(_, _)
RECURSIVE doin(_, _)
RECURSIVE opt(_, _)
RECURSIVE opt_loop(_, _, _)

Reverse(values) ==
    [i \in 1..Len(values) |-> values[Len(values) + 1 - i]]

\* do, running the quote in a detached child that starts on the caller's
\* stack, and taking the child's stack
do_detached(state, depth) ==
    IF ~can_pop(state.stack, "Quote") THEN pop_panic(state.stack, "do")
    ELSE
        LET substate == run_quote(Top(state.stack).v,
                            contextless_child(state, Rest(state.stack)),
                            depth + 1)
        IN  IF IsFatal(substate) THEN substate
            ELSE replace_stack(state, substate.stack)

\* "do": pops a quote and runs it against the rest of the state
do_(state, depth) ==
    IF ~can_pop(state.stack, "Quote") THEN pop_panic(state.stack, "do")
    ELSE run_quote(Top(state.stack).v,
                   replace_stack(state, Rest(state.stack)), depth + 1)

\* doin, keeping the dictionary the child ended with
doin_merge(state, depth) ==
    IF ~can_pop(state.stack, "Quote")
    THEN pop_panic(state.stack, "call-in")
    ELSE IF ~can_pop(Rest(state.stack), "Quote")
    THEN pop_panic(Rest(state.stack), "call-in")
    ELSE
        LET quot == Top(state.stack).v
            working_stack == Top(Rest(state.stack)).v
            stack == Rest(Rest(state.stack))
            substate == run_quote(quot,
                                  contextless_child(state, working_stack),
                                  depth + 1)
        IN  IF IsFatal(substate) THEN substate
            ELSE RailState(push(stack, Quote(substate.stack)),
                           substate.dictionary, state.context)

\* doin, returning the child state with the result pushed on the caller's
\* stack
doin_returns_child(state, depth) ==
    IF ~can_pop(state.stack, "Quote")
    THEN pop_panic(state.stack, "call-in")
    ELSE IF ~can_pop(Rest(state.stack), "Quote")
    THEN pop_panic(Rest(state.stack), "call-in")
    ELSE
        LET quot == Top(state.stack).v
            working_stack == Top(Rest(state.stack)).v
            stack == Rest(Rest(state.stack))
            substate == run_quote(quot,
                                  contextless_child(state, working_stack),
                                  depth + 1)
        IN  IF IsFatal(substate) THEN substate
            ELSE replace_stack(substate, push(stack, Quote(substate.stack)))

\* "doin": pops a quote and a working stack, runs the quote in a child
\* state and pushes the child's stack as one quote
doin(state, depth) ==
    IF ~can_pop(state.stack, "Quote")
    THEN pop_panic(state.stack, "call-in")
    ELSE IF ~can_pop(Rest(state.stack), "Quote")
    THEN pop_panic(Rest(state.stack), "call-in")
    ELSE
        LET quot == Top(state.stack).v
            working_stack == Top(Rest(state.stack)).v
            stack == Rest(Rest(state.stack))
            substate == run_quote(quot,
                                  contextless_child(state, working_stack),
                                  depth + 1)
        IN  IF IsFatal(substate) THEN substate
            ELSE replace_stack(state, push(stack, Quote(substate.stack)))

\* def, popping the quote first and then the name
def_name_first(state) ==
    IF ~can_pop(state.stack, "Quote") THEN pop_panic(state.stack, "def")
    ELSE IF ~can_pop(Rest(state.stack), "String")
    THEN pop_panic(Rest(state.stack), "def")
    ELSE
        LET quot == Top(state.stack).v
            name == Top(Rest(state.stack)).v
            stack == Rest(Rest(state.stack))
        IN  RailState(stack,
                      insert(state.dictionary, name, from_quote(name, quot)),
                      state.context)

\* def, leaving a name that is bound to a Builtin as it is
def_keeps_builtins(state) ==
    IF ~can_pop(state.stack, "String") THEN pop_panic(state.stack, "def")
    ELSE IF ~can_pop(Rest(state.stack), "Quote")
    THEN pop_panic(Rest(state.stack), "def")
    ELSE
        LET name == Top(state.stack).v
            quot == Top(Rest(state.stack)).v
            stack == Rest(Rest(state.stack))
        IN  IF /\ name \in DOMAIN state.dictionary
               /\ state.dictionary[name].action.kind = "Builtin"
            THEN replace_stack(state, stack)
            ELSE RailState(stack,
                           insert(state.dictionary, name,
                                  from_quote(name, quot)),
                           state.context)

\* def, leaving a name that is already bound as it is
def_first_wins(state) ==
    IF ~can_pop(state.stack, "String") THEN pop_panic(state.stack, "def")
    ELSE IF ~can_pop(Rest(state.stack), "Quote")
    THEN pop_panic(Rest(state.stack), "def")
    ELSE
        LET name == Top(state.stack).v
            quot == Top(Rest(state.stack)).v
            stack == Rest(Rest(state.stack))
        IN  IF name \in DOMAIN state.dictionary
            THEN replace_stack(state, stack)
            ELSE RailState(stack,
                           insert(state.dictionary, name,
                                  from_quote(name, quot)),
                           state.context)

\* "def": pops a name, then a quote, and binds the name to the quote
def(state) ==
    IF ~can_pop(state.stack, "String") THEN pop_panic(state.stack, "def")
    ELSE IF ~can_pop(Rest(state.stack), "Quote")
    THEN pop_panic(Rest(state.stack), "def")
    ELSE
        LET name == Top(state.stack).v
            quot == Top(Rest(state.stack)).v
            stack == Rest(Rest(state.stack))
        IN  RailState(stack,
                      insert(state.dictionary, name, from_quote(name, quot)),
                      state.context)

\* def?, answering whether the name is bound to a user quote
def_p_user(state) ==
    IF ~can_pop(state.stack, "String") THEN pop_panic(state.stack, "def?")
    ELSE
        LET name == Top(state.stack).v
            stack == Rest(state.stack)
        IN  replace_stack(state,
                push(stack,
                     Boolean(/\ name \in DOMAIN state.dictionary
                             /\ state.dictionary[name].action.kind
                                    = "Quotation")))

\* "def?": pops a name and pushes whether it is bound
def_p(state) ==
    IF ~can_pop(state.stack, "String") THEN pop_panic(state.stack, "def?")
    ELSE
        LET name == Top(state.stack).v
            stack == Rest(state.stack)
        IN  replace_stack(state,
                push(stack, Boolean(name \in DOMAIN state.dictionary)))

\* undef, doing nothing when the name is not bound
undef_silent(state) ==
    IF ~can_pop(state.stack, "String") THEN pop_panic(state.stack, "undef")
    ELSE RailState(Rest(state.stack),
                   remove(state.dictionary, Top(state.stack).v),
                   state.context)

\* "undef": pops a name and removes its binding, or panics
undef(state) ==
    IF ~can_pop(state.stack, "String") THEN pop_panic(state.stack, "undef")
    ELSE
        LET name == Top(state.stack).v
            stack == Rest(state.stack)
        IN  IF name \notin DOMAIN state.dictionary
            THEN Fatal("already_undefined", name)
            ELSE RailState(stack, remove(state.dictionary, name),
                           state.context)

\* the loop of opt, going on to the next pair after an action has run
opt_loop_fallthrough(options, state, depth) ==
    IF options = <<>> THEN state
    ELSE IF ~can_pop(options, "Quote") THEN pop_panic(options, "opt")
    ELSE IF ~can_pop(Rest(options), "Quote")
    THEN pop_panic(Rest(options), "opt")
    ELSE
        LET condition == Top(options).v
            action == Top(Rest(options)).v
            opts == Rest(Rest(options))
            tested == run_quote(condition, state, depth + 1)
        IN  IF IsFatal(tested) THEN tested
            ELSE IF ~can_pop(tested.stack, "Boolean")
            THEN pop_panic(tested.stack, "opt")
            ELSE
                LET success == Top(tested.stack).v
                    popped == replace_stack(tested, Rest(tested.stack))
                    acted == IF success
                             THEN run_quote(action, popped, depth + 1)
                             ELSE popped
                IN  IF IsFatal(acted) THEN acted
                    ELSE opt_loop(opts, acted, depth)

\* the while loop of "opt"; options is the reversed options quote, so that
\* its last element is the first condition
opt_loop(options, state, depth) ==
    IF options = <<>> THEN state
    ELSE IF ~can_pop(options, "Quote") THEN pop_panic(options, "opt")
    ELSE IF ~can_pop(Rest(options), "Quote")
    THEN pop_panic(Rest(options), "opt")
    ELSE
        LET condition == Top(options).v
            action == Top(Rest(options)).v
            opts == Rest(Rest(options))
            tested == run_quote(condition, state, depth + 1)
        IN  IF IsFatal(tested) THEN tested
            ELSE IF ~can_pop(tested.stack, "Boolean")
            THEN pop_panic(tested.stack, "opt")
            ELSE
                LET success == Top(tested.stack).v
                    popped == replace_stack(tested, Rest(tested.stack))
                IN  IF success THEN run_quote(action, popped, depth + 1)
                    ELSE opt_loop(opts, popped, depth)

\* opt, taking the pairs from the end of the options quote
opt_unreversed(state, depth) ==
    IF ~can_pop(state.stack, "Quote") THEN pop_panic(state.stack, "opt")
    ELSE opt_loop(Top(state.stack).v,
                  replace_stack(state, Rest(state.stack)), depth)

\* "opt": pops the options quote, reverses it and runs the loop
opt(state, depth) ==
    IF ~can_pop(state.stack, "Quote") THEN pop_panic(state.stack, "opt")
    ELSE opt_loop(Reverse(Top(state.stack).v),
                  replace_stack(state, Rest(state.stack)), depth)

\* the native action stored in a Builtin definition
native(name, state, depth) ==
    CASE name = "do" -> do_(state, depth)
      [] name = "doin" -> doin(state, depth)
      [] name = "def" -> def(state)
      [] name = "def?" -> def_p(state)
      [] name = "undef" -> undef(state)
      [] name = "opt" -> opt(state, depth)

\* act, without the stack underflow check
act_unchecked(self, state, depth) ==
    IF self.action.kind = "Builtin"
    THEN native(self.name, state, depth)
    ELSE run_quote(self.action.quote, state, depth + 1)

\* the quote of a user word run element by element, each element read
\* from the quote the name is bound to when the element is reached
RECURSIVE run_live(_, _, _, _)
run_live(name, i, state, depth) ==
    IF IsFatal(state) THEN state
    ELSE IF name \notin DOMAIN state.dictionary
    THEN Fatal("undefined", name)
    ELSE IF i > Len(state.dictionary[name].action.quote) THEN state
    ELSE run_live(name, i + 1,
                  run_from(<<state.dictionary[name].action.quote[i]>>, 1,
                           state, depth),
                  depth)

\* act, running a user word from the dictionary entry of its name instead
\* of from the quote looked up
act_live(self, state, depth) ==
    IF Len(state.stack) < Len(self.consumes)
    THEN Fatal("underflow", self.name)
    ELSE IF self.action.kind = "Builtin"
    THEN native(self.name, state, depth)
    ELSE IF depth + 1 > MaxCallDepth THEN Fatal("diverged", "")
    ELSE run_live(self.name, 1, state, depth + 1)

\* act, giving up on a user word nested deeper than three calls and
\* returning the state as it is
act_limited(self, state, depth) ==
    IF Len(state.stack) < Len(self.consumes)
    THEN Fatal("underflow", self.name)
    ELSE IF self.action.kind = "Builtin"
    THEN native(self.name, state, depth)
    ELSE IF depth >= 3 THEN state
    ELSE run_quote(self.action.quote, state, depth + 1)

\* RailDef::act: the stack underflow check, then the action
act(self, state, depth) ==
    IF Len(state.stack) < Len(self.consumes)
    THEN Fatal("underflow", self.name)
    ELSE IF self.action.kind = "Builtin"
    THEN native(self.name, state, depth)
    ELSE run_quote(self.action.quote, state, depth + 1)

\* the fold, passing over a Command that is not in the dictionary
run_from_skip(quote, i, state, depth) ==
    IF IsFatal(state) \/ i > Len(quote) THEN state
    ELSE
        LET rail_val == quote[i]
            next ==
                IF rail_val.t = "Command"
                THEN IF rail_val.v \notin DOMAIN state.dictionary
                     THEN state
                     ELSE act(state.dictionary[rail_val.v], state, depth)
                ELSE replace_stack(state, push(state.stack, rail_val))
        IN  run_from(quote, i + 1, next, depth)

\* the fold, taking the elements from the last to the first
run_from_backwards(quote, i, state, depth) ==
    IF IsFatal(state) \/ i > Len(quote) THEN state
    ELSE
        LET rail_val == quote[Len(quote) + 1 - i]
            next ==
                IF rail_val.t = "Command"
                THEN IF rail_val.v \notin DOMAIN state.dictionary
                     THEN Fatal("undefined", rail_val.v)
                     ELSE act(state.dictionary[rail_val.v], state, depth)
                ELSE replace_stack(state, push(state.stack, rail_val))
        IN  run_from(quote, i + 1, next, depth)

\* the fold of run_quote from element i on; a panic ends the fold
run_from(quote, i, state, depth) ==
    IF IsFatal(state) \/ i > Len(quote) THEN state
    ELSE
        LET rail_val == quote[i]
            next ==
                IF rail_val.t = "Command"
                THEN IF rail_val.v \notin DOMAIN state.dictionary
                     THEN Fatal("undefined", rail_val.v)
                     ELSE act(state.dictionary[rail_val.v], state, depth)
                ELSE replace_stack(state, push(state.stack, rail_val))
        IN  run_from(quote, i + 1, next, depth)

run_quote(quote, state, depth) ==
    IF depth > MaxCallDepth THEN Fatal("diverged", "")
    ELSE run_from(quote, 1, state, depth)

---------------------------------------------------------------------------
(* Equality, ordering and negation of values: the words ==, !=, <, <=, >,  *)
(* >= and not.  An F64 is held as twice its value, so an i64 converted to  *)
(* f64 is twice the integer; the conversion is exact for the integers of   *)
(* the model (it is exact up to 2^53).                                     *)

\* n as f64, giving the integer itself as the float's representation
to_f64_raw(n) == n

\* n as f64
to_f64(n) == 2 * n

Numeric(val) == val.t \in {"I64", "F64"}

\* a numeric operand as the float a mixed pair is compared in
promote(val) == IF val.t = "I64" THEN to_f64(val.v) ELSE val.v

\* equality, never equating values of different variants
RECURSIVE eq_same_variant(_, _)
eq_same_variant(a, b) ==
    IF a.t # b.t THEN FALSE
    ELSE IF a.t = "Quote"
    THEN /\ Len(a.v) = Len(b.v)
         /\ \A i \in 1..Len(a.v) : eq_same_variant(a.v[i], b.v[i])
    ELSE a.v = b.v

\* equality, pairing the elements of two quotes up to the shorter one
RECURSIVE eq_zipped(_, _)
eq_zipped(a, b) ==
    IF a.t = "I64" /\ b.t = "I64" THEN a.v = b.v
    ELSE IF Numeric(a) /\ Numeric(b) THEN promote(a) = promote(b)
    ELSE IF a.t # b.t THEN FALSE
    ELSE IF a.t = "Quote"
    THEN \A i \in 1..Len(a.v) : i <= Len(b.v) => eq_zipped(a.v[i], b.v[i])
    ELSE a.v = b.v

\* "==": structural, and across the two numeric variants
RECURSIVE eq(_, _)
eq(a, b) ==
    IF a.t = "I64" /\ b.t = "I64" THEN a.v = b.v
    ELSE IF Numeric(a) /\ Numeric(b) THEN promote(a) = promote(b)
    ELSE IF a.t # b.t THEN FALSE
    ELSE IF a.t = "Quote"
    THEN /\ Len(a.v) = Len(b.v)
         /\ \A i \in 1..Len(a.v) : eq(a.v[i], b.v[i])
    ELSE a.v = b.v

\* !=, holding of any two values of different variants
neq_across_variants(a, b) == a.t # b.t \/ ~eq(a, b)

\* "!="
neq(a, b) == ~eq(a, b)

\* "<", "<=", ">", ">=": integers as integers, any other pair as floats
lt(a, b) ==
    IF a.t = "I64" /\ b.t = "I64" THEN a.v < b.v
    ELSE promote(a) < promote(b)
lte(a, b) ==
    IF a.t = "I64" /\ b.t = "I64" THEN a.v <= b.v
    ELSE promote(a) <= promote(b)
gt(a, b) ==
    IF a.t = "I64" /\ b.t = "I64" THEN a.v > b.v
    ELSE promote(a) > promote(b)
gte(a, b) ==
    IF a.t = "I64" /\ b.t = "I64" THEN a.v >= b.v
    ELSE promote(a) >= promote(b)

\* a binary word: pops b, then a, and pushes the boolean
binary(word, a, b) ==
    CASE word = "==" -> eq(a, b)
      [] word = "!=" -> neq(a, b)
      [] word = "<" -> lt(a, b)
      [] word = "<=" -> lte(a, b)
      [] word = ">" -> gt(a, b)
      [] word = ">=" -> gte(a, b)

\* the words of this section applied to a state
operate(word, state) ==
    IF word = "not"
    THEN IF ~can_pop(state.stack, "Boolean")
         THEN pop_panic(state.stack, "not")
         ELSE replace_stack(state,
                 push(Rest(state.stack), Boolean(~Top(state.stack).v)))
    ELSE IF Len(state.stack) < 2 THEN Fatal("underflow", word)
    ELSE replace_stack(state,
            push(Rest(Rest(state.stack)),
                 Boolean(binary(word, Top(Rest(state.stack)),
                                Top(state.stack)))))

---------------------------------------------------------------------------
(* The inputs: the tokens the loader feeds, one at a time, and the states  *)
(* an evaluation starts from.                                              *)

Open == [t |-> "Open", v |-> ""]
Close == [t |-> "Close", v |-> ""]
Start == [t |-> "Start", v |-> ""]
\* the string and comment signals of the loader
OpenString == [t |-> "OpenString", v |-> ""]
Text(s) == [t |-> "Text", v |-> s]
Fragment(s) == [t |-> "Fragment", v |-> s]
CloseString == [t |-> "CloseString", v |-> ""]
OpenComment == [t |-> "OpenComment", v |-> ""]
CloseComment == [t |-> "CloseComment", v |-> ""]

SeqsUpTo(S, n) == UNION {[1..k -> S] : k \in 0..n}

EmptyQuote == Quote(<<>>)
NameQuote == Quote(<<String("foo")>>)
AskQuote == Quote(<<Command("def?")>>)
\* bodies that def / undef foo and then ask def? about it
DefQuote ==
    Quote(<<Quote(<<>>), String("foo"), Command("def"),
            String("foo"), Command("def?")>>)
UndefQuote ==
    Quote(<<String("foo"), Command("undef"),
            String("foo"), Command("def?")>>)
CallQuote == Quote(<<Command("foo"), Boolean(TRUE)>>)
SelfUndefQuote ==
    Quote(<<String("foo"), Command("undef"), Command("foo"), Boolean(TRUE)>>)

\* the values on the stack an evaluation starts from
Values ==
    { String("foo"), EmptyQuote, NameQuote, AskQuote, DefQuote, UndefQuote,
      CallQuote }

Words == {"do", "doin", "def", "def?", "undef", "opt", "foo"}

\* the terms evaluated
Terms == Values \cup {Command(w) : w \in Words}

\* the dictionaries an evaluation starts from: the builtins, and foo
\* unbound or bound by an earlier def
Dictionaries ==
    {new_dictionary} \cup
    { insert(new_dictionary, "foo", from_quote("foo", q.v)) :
        q \in {EmptyQuote, CallQuote, SelfUndefQuote} }

(* Options quotes for opt, generated from descriptors: pair i has a        *)
(* condition that pushes true or false, after a marker I64(i) when it is   *)
(* marked, or that calls foo; and an action that pushes the marker         *)
(* I64(-i), or that calls foo.                                             *)
CondKinds == {"true", "false", "marked_true", "marked_false", "call"}
ActKinds == {"mark", "call"}
PairKinds == [c : CondKinds, a : ActKinds]
Descriptors == SeqsUpTo(PairKinds, MaxPairs)

Cond(i, kind) ==
    CASE kind = "true" -> Quote(<<Boolean(TRUE)>>)
      [] kind = "false" -> Quote(<<Boolean(FALSE)>>)
      [] kind = "marked_true" -> Quote(<<I64(i), Boolean(TRUE)>>)
      [] kind = "marked_false" -> Quote(<<I64(i), Boolean(FALSE)>>)
      [] kind = "call" -> CallQuote

Action(i, kind) ==
    IF kind = "mark" THEN Quote(<<I64(0 - i)>>) ELSE CallQuote

OptionsOf(d) ==
    Quote([j \in 1..(2 * Len(d)) |->
        IF j % 2 = 1 THEN Cond((j + 1) \div 2, d[(j + 1) \div 2].c)
        ELSE Action(j \div 2, d[j \div 2].a)])

\* the stacks an evaluation starts from
Stacks ==
    SeqsUpTo(Values, MaxStack) \cup
    { s \o <<OptionsOf(d)>> :
        s \in SeqsUpTo({String("foo")}, 1), d \in Descriptors }

\* one literal of each variant that is not a Command
Literals ==
    { Boolean(TRUE), I64(1), F64(3), String("foo"),
      Quote(<<Command("foo")>>) }

\* the quotes the evaluator runs: single terms, and quotes of literals
LiteralQuotes == SeqsUpTo(Literals, 2) \ {<<>>}
Programs == {<<term>> : term \in Terms} \cup LiteralQuotes

\* the literals pushed while quotations are being built
CtxLiterals == {Boolean(TRUE), I64(1)}

\* the literal pushed, and the texts appended, between mode changes
LexLiterals == {I64(1)}
LexWords == {"a"}

\* the terms a top-level session evaluates between mode changes
TopTerms == {I64(1), Command("do"), Command("doin")}

\* bodies for foo that rebind foo to [ 2 ], or unbind it, and then push 1
SelfDefQuote ==
    Quote(<<Quote(<<I64(2)>>), String("foo"), Command("def"), I64(1)>>)
SelfDropQuote == Quote(<<String("foo"), Command("undef"), I64(1)>>)

\* the terms of a session that binds foo to these bodies and invokes it
SelfTerms ==
    { SelfDefQuote, SelfDropQuote, String("foo"),
      Command("def"), Command("foo") }

\* the terms of a session that binds, rebinds and invokes foo and bar
BindTerms ==
    { String("foo"), String("bar"),
      Quote(<<I64(1)>>), Quote(<<I64(2)>>), Quote(<<Command("foo")>>),
      Command("def"), Command("do"), Command("foo"), Command("bar") }

\* the operands compared: numbers of both variants (the floats in halves),
\* booleans, strings, and quotes of elements of every variant
CmpNumbers ==
    {I64(n) : n \in 0..MaxNum} \cup {F64(n2) : n2 \in 0..(2 * MaxNum)}
CmpBooleans == {Boolean(TRUE), Boolean(FALSE)}
CmpStrings == {String("apple"), String("orange")}
CmpElements ==
    { Boolean(TRUE), I64(1), F64(2), String("6"), Command("print"),
      Quote(<<I64(1)>>), Quote(<<F64(2)>>), Quote(<<F64(3)>>) }
CmpQuotes == {Quote(values) : values \in SeqsUpTo(CmpElements, MaxQuoteLen)}
\* whether two operands are of the same kind: two numbers, two booleans,
\* two strings or two quotes
Comparable(a, b) ==
    \/ a \in CmpNumbers /\ b \in CmpNumbers
    \/ a.t = b.t /\ a \notin CmpNumbers
CmpOperands == CmpNumbers \cup CmpBooleans \cup CmpStrings \cup CmpQuotes
CmpWords == {"==", "!=", "<", "<=", ">", ">=", "not"}

\* the operands the word is defined on
Applies(word, stack) ==
    CASE word \in {"==", "!="} -> TRUE
      [] word = "not" -> Top(stack).t = "Boolean"
      [] OTHER -> Numeric(Top(stack)) /\ Numeric(Top(Rest(stack)))

\* the terms of a dictionary session
DictTerms ==
    { String("foo"), String("do"), EmptyQuote,
      Command("def"), Command("def?"), Command("undef"), Command("do") }

RECURSIVE ValueSize(_)
RECURSIVE StackSize(_)
ValueSize(val) == IF val.t = "Quote" THEN 1 + StackSize(val.v) ELSE 1
StackSize(stack) ==
    IF stack = <<>> THEN 0
    ELSE StackSize(Rest(stack)) + ValueSize(Top(stack))

RECURSIVE ContextSize(_)
ContextSize(context) ==
    IF context.kind = "Quotation"
    THEN StackSize(context.parent_stack) + ContextSize(context.parent_context)
    ELSE IF context.kind \in Nested
    THEN ContextSize(context.parent_context)
    ELSE 0

TotalSize(state) == StackSize(state.stack) + ContextSize(state.context)

\* the strings in a stack, nested ones counted, and in a whole state
RECURSIVE StackStrings(_)
StackStrings(stack) ==
    IF stack = <<>> THEN 0
    ELSE StackStrings(Rest(stack)) +
         (CASE Top(stack).t = "String" -> 1
            [] Top(stack).t = "Quote" -> StackStrings(Top(stack).v)
            [] OTHER -> 0)

RECURSIVE ContextStrings(_)
ContextStrings(context) ==
    IF context.kind = "Quotation"
    THEN StackStrings(context.parent_stack)
         + ContextStrings(context.parent_context)
    ELSE IF context.kind \in Nested
    THEN ContextStrings(context.parent_context)
    ELSE 0

TotalStrings(state) ==
    StackStrings(state.stack) + ContextStrings(state.context)

---------------------------------------------------------------------------
(* The actions: one per entry point the loader calls.                      *)

\* the outcome of an entry point becomes the next state, or ends the process
Outcome(out) ==
    IF IsFatal(out)
    THEN /\ exit' = out
         /\ st' = st
    ELSE /\ st' = out
         /\ exit' = exit

\* the names whose latest def / undef is a def, after evaluating term
Tracked(term, out) ==
    IF IsFatal(out) \/ st.stack = <<>> THEN defined
    ELSE IF term = Command("def") THEN defined \cup {Top(st.stack).v}
    ELSE IF term = Command("undef") THEN defined \ {Top(st.stack).v}
    ELSE defined

\* the quotes the user words of a dictionary are bound to
UserQuotes(dictionary) ==
    [name \in {n \in DOMAIN dictionary :
                  dictionary[n].action.kind = "Quotation"} |->
        dictionary[name].action.quote]

\* the quote each user word was last bound to, after evaluating term
TrackedQuotes(term, out) ==
    IF IsFatal(out) \/ st.stack = <<>> THEN latest
    ELSE IF term = Command("def")
    THEN [name \in DOMAIN latest \cup {Top(st.stack).v} |->
            IF name = Top(st.stack).v THEN Top(Rest(st.stack)).v
            ELSE latest[name]]
    ELSE IF term = Command("undef")
    THEN [name \in DOMAIN latest \ {Top(st.stack).v} |-> latest[name]]
    ELSE latest

\* the loader evaluates a quote of terms with run_quote
Run(quote) ==
    /\ exit = Running
    /\ Outcome(run_quote(quote, st, 0))
    /\ last' = Quote(quote)
    /\ saved' = saved
    /\ defined' = IF Len(quote) = 1
                  THEN Tracked(quote[1], run_quote(quote, st, 0))
                  ELSE defined
    /\ latest' = IF Len(quote) = 1
                 THEN TrackedQuotes(quote[1], run_quote(quote, st, 0))
                 ELSE latest
    /\ UNCHANGED <<open, literal>>

\* enter-quotation
Deeper ==
    /\ exit = Running
    /\ ContextDepth(st.context) < MaxDepth
    /\ Outcome(deeper(st))
    /\ last' = Open
    /\ saved' = Append(saved, st.stack)
    /\ open' = open + 1
    /\ UNCHANGED <<defined, latest, literal>>

\* exit-quotation
Higher ==
    /\ exit = Running
    /\ Outcome(higher(st))
    /\ last' = Close
    /\ saved' = IF saved = <<>> THEN saved ELSE Rest(saved)
    /\ open' = IF IsFatal(higher(st)) THEN open ELSE open - 1
    /\ UNCHANGED <<defined, latest, literal>>

\* no string literal has been entered yet
NoLiteral == [context |-> Main, stack |-> <<>>, content |-> <<>>]

\* the characters a sequence of text signals adds to the literal: a word
\* counts one more than its length
RECURSIVE TextLen(_)
TextLen(tokens) ==
    IF tokens = <<>> THEN 0
    ELSE TextLen(Rest(tokens)) + Len(Top(tokens).v)
         + (IF Top(tokens).t = "Text" THEN 1 ELSE 0)

\* enter-string
EnterString ==
    /\ exit = Running
    /\ Outcome(enter_string(st))
    /\ last' = OpenString
    /\ saved' = Append(saved, st.stack)
    /\ open' = open + 1
    /\ literal' = [context |-> st.context, stack |-> st.stack,
                   content |-> <<>>]
    /\ UNCHANGED <<defined, latest>>

\* append-to-string: a word of the literal
AppendString(s) ==
    /\ exit = Running
    /\ TextLen(Append(literal.content, Text(s))) <= MaxText
    /\ Outcome(append_string(st, s))
    /\ last' = Text(s)
    /\ literal' = [literal EXCEPT !.content = Append(@, Text(s))]
    /\ UNCHANGED <<saved, defined, latest, open>>

\* append-to-string: an exact fragment of the literal
AppendStringExact(s) ==
    /\ exit = Running
    /\ TextLen(Append(literal.content, Fragment(s))) <= MaxText
    /\ Outcome(append_string_exact(st, s))
    /\ last' = Fragment(s)
    /\ literal' = [literal EXCEPT !.content = Append(@, Fragment(s))]
    /\ UNCHANGED <<saved, defined, latest, open>>

\* exit-string
ExitString ==
    /\ exit = Running
    /\ Outcome(exit_string(st))
    /\ last' = CloseString
    /\ saved' = IF IsFatal(exit_string(st)) THEN saved ELSE Rest(saved)
    /\ open' = IF IsFatal(exit_string(st)) THEN open ELSE open - 1
    /\ literal' = IF IsFatal(exit_string(st)) THEN literal ELSE NoLiteral
    /\ UNCHANGED <<defined, latest>>

\* enter-comment
EnterComment ==
    /\ exit = Running
    /\ Outcome(enter_comment(st))
    /\ last' = OpenComment
    /\ saved' = Append(saved, st.stack)
    /\ open' = open + 1
    /\ UNCHANGED <<defined, latest, literal>>

\* exit-comment
ExitComment ==
    /\ exit = Running
    /\ Outcome(exit_comment(st))
    /\ last' = CloseComment
    /\ saved' = IF IsFatal(exit_comment(st)) THEN saved ELSE Rest(saved)
    /\ open' = IF IsFatal(exit_comment(st)) THEN open ELSE open - 1
    /\ UNCHANGED <<defined, latest, literal>>

\* a word of the boolean library applied to the state
Operate(word) ==
    /\ exit = Running
    /\ Outcome(operate(word, st))
    /\ last' = Quote(<<Command(word)>>)
    /\ saved' = Append(saved, st.stack)
    /\ UNCHANGED <<defined, latest, open, literal>>

\* the state after construction
InitDefault ==
    /\ st = RailStateDefault
    /\ exit = Running
    /\ last = Start
    /\ saved = <<>>
    /\ defined = DOMAIN new_dictionary
    /\ latest = UserQuotes(new_dictionary)
    /\ open = 0
    /\ literal = NoLiteral

\* a state reached by earlier pushes and defs, about to evaluate a term
Init ==
    /\ st \in { RailState(stack, dictionary, Main) :
                  stack \in Stacks, dictionary \in Dictionaries }
    /\ exit = Running
    /\ last = Start
    /\ saved = <<>>
    /\ defined = DOMAIN st.dictionary
    /\ latest = UserQuotes(st.dictionary)
    /\ open = 0
    /\ literal = NoLiteral

\* the contexts an evaluation is started in other than Main: two quotations
\* being built, each above a stack of its own, and the detached context of
\* a doin child
InnerContexts ==
    { Quotation(Quotation(Main, <<String("foo")>>), <<EmptyQuote>>), None }

\* a state inside quotations being built, or of a doin child, reached by
\* earlier pushes and defs and about to evaluate a term
InitIn ==
    /\ st \in { RailState(stack, dictionary, context) :
                  stack \in Stacks, dictionary \in Dictionaries,
                  context \in InnerContexts }
    /\ exit = Running
    /\ last = Start
    /\ saved = <<>>
    /\ defined = DOMAIN st.dictionary
    /\ latest = UserQuotes(st.dictionary)
    /\ open = 0
    /\ literal = NoLiteral

\* the evaluator: one quote run against the state
Next ==
    \E quote \in Programs : last = Start /\ Run(quote)

Spec == Init /\ [][Next]_vars

\* the evaluator run in a context other than Main
SpecIn == InitIn /\ [][Next]_vars

\* the context machine: literals pushed while quotations open and close
NextCtx ==
    \/ \E term \in CtxLiterals : Run(<<term>>) /\ TotalSize(st') <= MaxSize
    \/ Deeper
    \/ Higher /\ TotalSize(st') <= MaxSize

SpecCtx == InitDefault /\ [][NextCtx]_vars

\* a state constructed with RailState::new(context)
InitLex ==
    /\ st \in {RailState(QuoteNew, new_dictionary, context) :
                 context \in {Main, None}}
    /\ exit = Running
    /\ last = Start
    /\ saved = <<>>
    /\ defined = DOMAIN new_dictionary
    /\ latest = UserQuotes(new_dictionary)
    /\ open = 0
    /\ literal = NoLiteral

\* the loader reading code: values, and the signals that enter a mode
CodeMode == ~in_string(st) /\ ~in_comment(st)

\* the lexical modes: in code mode the loader pushes values and enters
\* quotations, strings and comments; in a string it appends; the three exit
\* signals come in any mode
NextLex ==
    \/ /\ CodeMode
       /\ \E term \in LexLiterals : Run(<<term>>)
       /\ TotalSize(st') <= MaxLexSize
    \/ CodeMode /\ Deeper /\ ContextDepth(st'.context) <= MaxLexDepth
    \/ /\ CodeMode
       /\ ContextDepth(st.context) < MaxLexDepth
       /\ TotalStrings(st) < MaxStrings
       /\ EnterString
       /\ TotalSize(st') <= MaxLexSize
    \/ /\ CodeMode
       /\ ContextDepth(st.context) < MaxLexDepth
       /\ EnterComment
    \/ in_string(st) /\ \E s \in LexWords : AppendString(s)
    \/ in_string(st) /\ \E s \in LexWords : AppendStringExact(s)
    \/ Higher /\ TotalSize(st') <= MaxLexSize
    \/ ExitString
    \/ ExitComment

SpecLex == InitLex /\ [][NextLex]_vars

\* a top-level session: from the default state, the loader evaluates terms
\* in code mode, enters and exits quotations, strings and comments, and
\* appends words to the string being read
NextTop ==
    \/ /\ CodeMode
       /\ \E term \in TopTerms : Run(<<term>>)
       /\ TotalSize(st') <= MaxTopSize
    \/ CodeMode /\ Deeper /\ ContextDepth(st'.context) <= MaxLexDepth
    \/ /\ CodeMode
       /\ ContextDepth(st.context) < MaxLexDepth
       /\ TotalStrings(st) < MaxStrings
       /\ EnterString
       /\ TotalSize(st') <= MaxTopSize
    \/ /\ CodeMode
       /\ ContextDepth(st.context) < MaxLexDepth
       /\ EnterComment
    \/ in_string(st) /\ \E s \in LexWords : AppendString(s)
    \/ Higher /\ TotalSize(st') <= MaxTopSize
    \/ ExitString
    \/ ExitComment

SpecTop == InitDefault /\ [][NextTop]_vars

\* a dictionary session: names and quotes pushed, def, def? and undef
NextDict ==
    \E term \in DictTerms : Run(<<term>>) /\ Len(st'.stack) <= MaxStack

SpecDict == InitDefault /\ [][NextDict]_vars

\* two operands pushed, about to be compared
InitCmp ==
    /\ \E a \in CmpOperands : \E b \in {c \in CmpOperands : Comparable(a, c)} :
          st = RailState(<<a, b>>, new_dictionary, Main)
    /\ exit = Running
    /\ last = Start
    /\ saved = <<>>
    /\ defined = DOMAIN new_dictionary
    /\ latest = UserQuotes(new_dictionary)
    /\ open = 0
    /\ literal = NoLiteral

\* one comparison word applied to the operands
NextCmp ==
    \E word \in CmpWords :
        last = Start /\ Applies(word, st.stack) /\ Operate(word)

SpecCmp == InitCmp /\ [][NextCmp]_vars

\* a binding session: quotes bound to foo and bar, rebound, and invoked
\* directly, through do and through each other
NextBind ==
    \E term \in BindTerms : Run(<<term>>) /\ Len(st'.stack) <= MaxStack

SpecBind == InitDefault /\ [][NextBind]_vars

\* a session in which foo is bound to a quote that rebinds or unbinds foo,
\* and invoked again and again
NextSelf ==
    \E term \in SelfTerms : Run(<<term>>) /\ Len(st'.stack) <= MaxStack

SpecSelf == InitDefault /\ [][NextSelf]_vars

---------------------------------------------------------------------------
(* Properties.                                                             *)

Ran(word) == last' = Quote(<<Command(word)>>)
HasRun(word) == last = Quote(<<Command(word)>>)

\* the outcome out is what the step produced
Produced(out) ==
    IF IsFatal(out) THEN exit' = out /\ st' = st
    ELSE exit' = Running /\ st' = out

RECURSIVE HigherTimes(_, _)
HigherTimes(state, n) ==
    IF n = 0 \/ IsFatal(state) THEN state
    ELSE HigherTimes(higher(state), n - 1)

\* the quote that closing every open quotation from level k on builds
RECURSIVE NestedShape(_)
NestedShape(k) ==
    IF k = Len(saved) THEN Quote(st.stack)
    ELSE Quote(saved[k + 1] \o <<NestedShape(k + 1)>>)

\* C1: with N >= 1 quotations open over a Main stack S, whatever literals
\* were pushed at each level, exiting N times gives a state in Main whose
\* stack is S followed by exactly one Quote of the nested shape built, with
\* the dictionary unchanged.
C1_QuotationRoundTrip ==
    (exit = Running /\ ContextDepth(st.context) >= 1) =>
        LET n == ContextDepth(st.context)
            closed == HigherTimes(st, n)
        IN  /\ Len(saved) = n
            /\ ~IsFatal(closed)
            /\ closed.context = Main
            /\ closed.stack = saved[1] \o <<NestedShape(1)>>
            /\ closed.dictionary = new_dictionary

\* two levels entered and exited over the Main stack <<true>>
C1_Witness ==
    /\ exit = Running
    /\ last = Close
    /\ st.context = Main
    /\ st.stack = <<Boolean(TRUE), Quote(<<Quote(<<I64(1)>>)>>)>>

\* C2: doin on S ++ [W, B] returns S ++ [Quote(R)], R being the final stack
\* of running B in a child whose stack starts as exactly the elements of W;
\* if B fails in the child, doin fails.
C2_DoinIsolatesStack ==
    [][ ( /\ Ran("doin")
          /\ Len(st.stack) >= 2
          /\ Top(st.stack).t = "Quote"
          /\ Top(Rest(st.stack)).t = "Quote" ) =>
        LET B == Top(st.stack).v
            W == Top(Rest(st.stack)).v
            S == Rest(Rest(st.stack))
            child == run_quote(B, RailState(W, st.dictionary, None), 1)
        IN  IF IsFatal(child) THEN exit' = child
            ELSE /\ exit' = Running
                 /\ st'.stack = S \o <<Quote(child.stack)>>
      ]_vars

\* doin has run [ def? ] over the working stack [ "foo" ], above "foo"
C2_Witness ==
    /\ exit = Running
    /\ HasRun("doin")
    /\ st.stack = <<String("foo"), Quote(<<Boolean(FALSE)>>)>>

\* C3: when doin returns, the caller's dictionary is the one it had before
\* doin, whatever the body defined or undefined: def? on foo answers as it
\* would have before.
C3_DoinKeepsDictionary ==
    [][ (Ran("doin") /\ exit' = Running) =>
        /\ st'.dictionary = st.dictionary
        /\ def_p(replace_stack(st', <<String("foo")>>)).stack
              = <<Boolean("foo" \in DOMAIN st.dictionary)>>
      ]_vars

\* doin has run a body that defined foo and saw it defined, and foo is
\* not bound in the caller
C3_Witness ==
    /\ exit = Running
    /\ HasRun("doin")
    /\ Top(st.stack) = Quote(<<Boolean(TRUE)>>)
    /\ "foo" \notin DOMAIN st.dictionary

\* C4: after any sequence of def, undef and def?, the bound names are the
\* names whose latest def / undef was a def (or builtins never undefined),
\* def? pushes whether its name is one of them, and def? leaves the
\* dictionary alone.
C4_DefinedTracksDefs ==
    [][ /\ DOMAIN st'.dictionary = defined'
        /\ (Ran("def?") /\ exit' = Running) =>
              /\ st'.stack = Rest(st.stack) \o
                    <<Boolean(Top(st.stack).v \in defined)>>
              /\ st'.dictionary = st.dictionary
      ]_vars

\* foo was defined, "do" was undefined, and def? on "do" answered false
C4_Witness ==
    /\ exit = Running
    /\ HasRun("def?")
    /\ Top(st.stack) = Boolean(FALSE)
    /\ "foo" \in defined
    /\ st.dictionary["foo"].action.kind = "Quotation"
    /\ "do" \notin defined

\* C5: undef on a name that is not bound is fatal and yields no state.
C5_UndefUnboundIsFatal ==
    [][ ( /\ Ran("undef")
          /\ st.stack # <<>>
          /\ Top(st.stack).t = "String"
          /\ Top(st.stack).v \notin DOMAIN st.dictionary ) =>
        /\ exit' = Fatal("already_undefined", Top(st.stack).v)
        /\ st' = st
      ]_vars

\* a second undef of "do", which was bound and has been undefined
C5_Witness ==
    /\ exit = Fatal("already_undefined", "do")
    /\ HasRun("undef")

(* opt on the generated options quotes.                                    *)
FalseKinds == {"false", "marked_false"}
TrueKinds == {"true", "marked_true"}
MarkedKinds == {"marked_true", "marked_false"}

\* pair k is the first whose condition yields true
Decides(d, k) ==
    /\ d[k].c \in TrueKinds
    /\ \A j \in 1..(k - 1) : d[j].c \in FalseKinds

NoneTrue(d) == \A j \in 1..Len(d) : d[j].c \in FalseKinds

\* what the conditions of pairs 1..k leave on the stack once each boolean
\* is popped
RECURSIVE Marks(_, _)
Marks(d, k) ==
    IF k = 0 THEN <<>>
    ELSE Marks(d, k - 1) \o
         (IF d[k].c \in MarkedKinds THEN <<I64(k)>> ELSE <<>>)

OnOptions(d) == st.stack # <<>> /\ Top(st.stack) = OptionsOf(d)
Beneath == Rest(st.stack)

\* C6: opt runs the conditions in their original order up to the first
\* that yields true, then that pair's action, and returns: no action of an
\* earlier pair and nothing of a later pair is run.
C6_OptShortCircuits ==
    [][ Ran("opt") =>
        \A d \in Descriptors : \A k \in 1..Len(d) :
            (OnOptions(d) /\ Decides(d, k)) =>
                IF d[k].a = "mark"
                THEN /\ exit' = Running
                     /\ st' = replace_stack(st,
                                Beneath \o Marks(d, k) \o <<I64(0 - k)>>)
                ELSE Produced(run_quote(CallQuote.v,
                        replace_stack(st, Beneath \o Marks(d, k)), 1))
      ]_vars

\* above "foo": condition 1 ran and was false, condition 2 ran and was
\* true, action 2 ran, action 1 did not
C6_Witness ==
    /\ exit = Running
    /\ HasRun("opt")
    /\ st.stack = <<String("foo"), I64(1), I64(2), I64(-2)>>

\* C7 as stated: when no condition yields true, opt returns the stack that
\* lay beneath the options quote, with the dictionary and context as before.
C7_UnmatchedOptIsNoOp ==
    [][ Ran("opt") =>
        \A d \in Descriptors :
            (OnOptions(d) /\ NoneTrue(d)) =>
                /\ exit' = Running
                /\ st' = replace_stack(st, Beneath)
      ]_vars

\* C7 as amended: when no condition yields true, opt runs no action and
\* returns the state the conditions left: the stack beneath the options
\* quote followed by what each condition pushed under its boolean, with the
\* dictionary and context as before; that is the stack beneath the options
\* quote when every condition pushes its boolean only.
C7_UnmatchedOptKeepsConditions ==
    [][ Ran("opt") =>
        \A d \in Descriptors :
            (OnOptions(d) /\ NoneTrue(d)) =>
                /\ exit' = Running
                /\ st' = replace_stack(st, Beneath \o Marks(d, Len(d)))
                /\ (\A j \in 1..Len(d) : d[j].c = "false") =>
                      st'.stack = Beneath
      ]_vars

\* two conditions ran, both false, each leaving its marker; no action ran
C7_Witness ==
    /\ exit = Running
    /\ HasRun("opt")
    /\ st.stack = <<I64(1), I64(2)>>

\* the evaluator reaches the Command foo, followed by other elements,
\* while foo is not bound: at the top level, in a quote run by do, in a
\* doin body, in an opt condition or action, in the quote of a user word
ReachesUndefined ==
    \/ /\ Ran("foo")
       /\ "foo" \notin DOMAIN st.dictionary
    \/ /\ Ran("do")
       /\ "foo" \notin DOMAIN st.dictionary
       /\ st.stack # <<>>
       /\ Top(st.stack) = CallQuote
    \/ /\ Ran("doin")
       /\ "foo" \notin DOMAIN st.dictionary
       /\ Len(st.stack) >= 2
       /\ Top(st.stack) = CallQuote
       /\ Top(Rest(st.stack)).t = "Quote"
    \/ /\ Ran("opt")
       /\ "foo" \notin DOMAIN st.dictionary
       /\ \E d \in Descriptors : \E k \in 1..Len(d) :
            /\ OnOptions(d)
            /\ \A j \in 1..(k - 1) : d[j].c \in FalseKinds
            /\ \/ d[k].c = "call"
               \/ d[k].c \in TrueKinds /\ d[k].a = "call"
    \/ /\ Ran("foo")
       /\ "foo" \in DOMAIN st.dictionary
       /\ st.dictionary["foo"] = from_quote("foo", SelfUndefQuote.v)

\* C8: reaching a Command that is not in the dictionary is fatal: nothing
\* after it runs, in that quote or in any enclosing evaluation, and there
\* is no result state.
C8_UndefinedWordIsFatal ==
    [][ ReachesUndefined =>
        /\ exit' = Fatal("undefined", "foo")
        /\ st' = st
      ]_vars

\* the user word foo ran a quote that undefined foo and then called it
C8_Witness ==
    /\ exit = Fatal("undefined", "foo")
    /\ HasRun("foo")
    /\ "foo" \in DOMAIN st.dictionary

\* the lengths of the consumes lists, as the claim gives them
ClaimedArity(word) ==
    CASE word = "opt" -> 1
      [] word = "do" -> 1
      [] word = "doin" -> 2
      [] word = "def" -> 2
      [] word = "def?" -> 1
      [] word = "undef" -> 1

\* C9: a Builtin invoked on a stack shorter than its consumes list is a
\* fatal underflow and its native action is not run; on a stack at least
\* that long the native action runs.  The stack is the live one: def? in a
\* doin child with an empty working stack underflows.
C9_UnderflowCheck ==
    [][ /\ \A word \in DOMAIN new_dictionary :
            ( /\ Ran(word)
              /\ word \in DOMAIN st.dictionary
              /\ st.dictionary[word].action.kind = "Builtin" ) =>
                IF Len(st.stack) < ClaimedArity(word)
                THEN exit' = Fatal("underflow", word) /\ st' = st
                ELSE Produced(native(word, st, 0))
        /\ ( /\ Ran("doin")
             /\ Len(st.stack) >= 2
             /\ Top(st.stack) = AskQuote
             /\ Top(Rest(st.stack)) = EmptyQuote ) =>
                exit' = Fatal("underflow", "def?") /\ st' = st
      ]_vars

\* def? underflowed in a doin child although the caller's stack held three
\* values
C9_Witness ==
    /\ exit = Fatal("underflow", "def?")
    /\ HasRun("doin")
    /\ Len(st.stack) = 3

\* C10: running a quote with no Command elements appends its elements, in
\* order and unchanged, to the stack; a Quote element is pushed without its
\* Commands being executed; dictionary and context are unchanged.
C10_LiteralsArePushed ==
    [][ ( /\ last'.t = "Quote"
          /\ \A i \in 1..Len(last'.v) : last'.v[i].t # "Command" ) =>
        /\ exit' = Running
        /\ st' = replace_stack(st, st.stack \o last'.v)
      ]_vars

\* a quote holding the unbound Command foo, then a float, pushed above "foo"
C10_Witness ==
    /\ exit = Running
    /\ last = Quote(<<Quote(<<Command("foo")>>), F64(3)>>)
    /\ st.stack = <<String("foo"), Quote(<<Command("foo")>>), F64(3)>>
    /\ "foo" \notin DOMAIN st.dictionary

(* The lexical modes.                                                      *)
Handled(token) == last' = token

\* the exit signals, each with the kind of context it leaves
Exits ==
    { [token |-> Close, kind |-> "Quotation"],
      [token |-> CloseString, kind |-> "String"],
      [token |-> CloseComment, kind |-> "Comment"] }

\* C11: an exit operation in a context that is not of its kind (higher in
\* Main, Detached, String or Comment; exit-string outside String;
\* exit-comment outside Comment) is fatal and yields no state, and nothing
\* is handled after it.  So the exits that returned never outnumber the
\* enters before them, and Main is never exited.
C11_ExitsMatchContext ==
    [][ /\ exit = Running
        /\ \A e \in Exits :
              (Handled(e.token) /\ st.context.kind # e.kind) =>
                  /\ exit'.fatal = "escape"
                  /\ st' = st
        /\ open' >= 0
        /\ open' = ContextDepth(st'.context)
        /\ (in_main(st) /\ \E e \in Exits : Handled(e.token)) =>
              (exit' # Running /\ in_main(st'))
      ]_vars

\* exit-string was signalled while a comment was being skipped
C11_Witness ==
    /\ exit = Fatal("escape", "exit_string")
    /\ last = CloseString
    /\ in_comment(st)
    /\ open = 2

(* Name resolution.                                                       *)

\* what running quote pushes when every Command in it names a user word
\* and resolves, at the moment it is reached, to the quote of that word's
\* last def; ok is false when a Command names anything else, or when the
\* chain of user words is longer than fuel
RECURSIVE Unfold(_, _)
Unfold(quote, fuel) ==
    IF quote = <<>> THEN [ok |-> TRUE, pushes |-> <<>>]
    ELSE
        LET head == quote[1]
            first ==
                IF head.t # "Command"
                THEN [ok |-> TRUE, pushes |-> <<head>>]
                ELSE IF head.v \in DOMAIN latest /\ fuel > 0
                THEN Unfold(latest[head.v], fuel - 1)
                ELSE [ok |-> FALSE, pushes |-> <<>>]
            others == Unfold(Tail(quote), fuel)
        IN  [ok |-> first.ok /\ others.ok,
             pushes |-> first.pushes \o others.pushes]

\* C12: a name is resolved when its Command is executed, and the last def
\* wins: the dictionary binds each user word to the quote of its last def,
\* and invoking a word, directly, through do on a quote built earlier, or
\* through another user word defined earlier, runs the quote of the last
\* def of every name reached.
C12_LastDefinitionWins ==
    [][ /\ UserQuotes(st'.dictionary) = latest'
        /\ \A word \in {"foo", "bar"} :
              (Ran(word) /\ Unfold(<<Command(word)>>, 3).ok) =>
                  /\ exit' = Running
                  /\ st' = replace_stack(st,
                        st.stack \o Unfold(<<Command(word)>>, 3).pushes)
        /\ ( /\ Ran("do")
             /\ st.stack # <<>>
             /\ Top(st.stack).t = "Quote"
             /\ Unfold(Top(st.stack).v, 3).ok ) =>
                  /\ exit' = Running
                  /\ st' = replace_stack(st,
                        Rest(st.stack) \o Unfold(Top(st.stack).v, 3).pushes)
      ]_vars

\* bar, bound to [ foo ], pushed 1 while foo was bound to [ 1 ] and pushes
\* 2 now that foo is bound to [ 2 ]
C12_Witness ==
    /\ exit = Running
    /\ HasRun("bar")
    /\ st.stack = <<I64(1), I64(2)>>
    /\ latest = [name \in {"foo", "bar"} |->
                    IF name = "foo" THEN <<I64(2)>> ELSE <<Command("foo")>>]

\* C13 as stated: whatever def and undef have been applied to, a builtin's
\* own name included, invoking the name of a builtin performs its native
\* action (after the underflow check).
C13_BuiltinsNotOverridable ==
    [][ \A word \in DOMAIN new_dictionary :
            Ran(word) => Produced(act(new_dictionary[word], st, 0))
      ]_vars

\* C13 as amended: invoking the name of a builtin performs its native
\* action as long as no def or undef has been applied to that name; after
\* a def of the name it runs the quote of the last def instead, and after
\* an undef of the name it is fatal.
C13_BuiltinsUntilRebound ==
    [][ \A word \in DOMAIN new_dictionary :
            Ran(word) =>
                IF word \notin defined
                THEN exit' = Fatal("undefined", word) /\ st' = st
                ELSE IF word \in DOMAIN latest
                THEN Produced(run_quote(latest[word], st, 1))
                ELSE Produced(act(new_dictionary[word], st, 0))
      ]_vars

\* do was rebound to the empty quote and then invoked with a quote on top
\* of the stack, which it left there
C13_Witness ==
    /\ exit = Running
    /\ HasRun("do")
    /\ "do" \in DOMAIN latest
    /\ st.stack = <<EmptyQuote>>

(* The operands of def.                                                   *)

\* the state with name bound to quote and the two operands of def removed
Bound(name, quote) ==
    RailState(Rest(Rest(st.stack)),
              [n \in DOMAIN st.dictionary \cup {name} |->
                  IF n = name
                  THEN [name |-> name, consumes |-> <<>>, produces |-> <<>>,
                        action |-> [kind |-> "Quotation", quote |-> quote]]
                  ELSE st.dictionary[n]],
              st.context)

NameBelowQuote ==
    /\ Len(st.stack) >= 2
    /\ Top(st.stack).t = "Quote"
    /\ Top(Rest(st.stack)).t = "String"

QuoteBelowName ==
    /\ Len(st.stack) >= 2
    /\ Top(st.stack).t = "String"
    /\ Top(Rest(st.stack)).t = "Quote"

\* C14 as stated: def invoked with the Quote on top of the stack and the
\* String directly beneath it succeeds, removes both operands and binds the
\* name to the Quote.
C14_DefTakesNameFirst ==
    [][ (Ran("def") /\ NameBelowQuote) =>
        /\ exit' = Running
        /\ st' = Bound(Top(Rest(st.stack)).v, Top(st.stack).v)
      ]_vars

\* C14 as amended: def takes its operands quote first: invoked with the
\* String on top of the stack and the Quote directly beneath it, it
\* succeeds, removes both operands and binds the name to the Quote; invoked
\* with the Quote on top and the String beneath it, it is fatal (a type
\* mismatch) and binds nothing.
C14_DefTakesQuoteFirst ==
    [][ /\ (Ran("def") /\ QuoteBelowName) =>
              /\ exit' = Running
              /\ st' = Bound(Top(st.stack).v, Top(Rest(st.stack)).v)
        /\ (Ran("def") /\ NameBelowQuote) =>
              /\ exit' = Fatal("type_mismatch", "def")
              /\ st' = st
      ]_vars

\* def was invoked on "foo" [ ] and panicked; foo is not bound
C14_Witness ==
    /\ exit = Fatal("type_mismatch", "def")
    /\ HasRun("def")
    /\ st.stack = <<String("foo"), EmptyQuote>>
    /\ "foo" \notin DOMAIN st.dictionary

(* Equality and ordering.                                                 *)

Left == Top(Rest(st.stack))
Right == Top(st.stack)

\* the step replaced the two operands by the boolean b
Yields(b) ==
    /\ exit' = Running
    /\ st' = replace_stack(st, Rest(Rest(st.stack)) \o <<Boolean(b)>>)

\* twice the number a numeric value stands for
Twice(val) == IF val.t = "I64" THEN val.v + val.v ELSE val.v

\* a value with every number in it, at any depth, replaced by the number
\* it stands for, whatever its variant
RECURSIVE Norm(_)
Norm(val) ==
    IF Numeric(val) THEN [t |-> "Number", v |-> Twice(val)]
    ELSE IF val.t = "Quote"
    THEN Quote([i \in 1..Len(val.v) |-> Norm(val.v[i])])
    ELSE val

\* C15: == on two numbers of either variant holds iff they stand for the
\* same number: an Integer and a Float are equal, in either order, iff the
\* float is the integer converted to float; 1 == 1, 1 == 1.0, 1.0 == 1 and
\* 1.0 == 1.0 are true, 1 == 2, 1 == 2.0, 1.0 == 2 and 1.0 == 2.0 false.
C15_NumericEquality ==
    [][ (Ran("==") /\ Numeric(Left) /\ Numeric(Right)) =>
        /\ Yields(Twice(Left) = Twice(Right))
        /\ (Left \in {I64(1), F64(2)} /\ Right \in {I64(1), F64(2)})
              => Yields(TRUE)
        /\ (Left \in {I64(1), F64(2)} /\ Right \in {I64(2), F64(4)})
              => Yields(FALSE)
      ]_vars

\* 1 1.0 == gave true
C15_Witness ==
    /\ exit = Running
    /\ HasRun("==")
    /\ saved = << <<I64(1), F64(2)>> >>
    /\ st.stack = <<Boolean(TRUE)>>

\* C16: == on two Quotes holds iff they have the same length and the
\* elements at each position are equal, through nested Quotes and for
\* elements of every variant; quotes of different lengths, or differing at
\* one position at any depth, are unequal.
C16_QuoteEquality ==
    [][ (Ran("==") /\ Left.t = "Quote" /\ Right.t = "Quote") =>
        /\ Yields(Norm(Left) = Norm(Right))
        /\ Len(Left.v) # Len(Right.v) => Yields(FALSE)
        /\ Left = Right => Yields(TRUE)
      ]_vars

\* [ 1 [ 1.0 ] ] [ 1 [ 1.5 ] ] == gave false
C16_Witness ==
    /\ exit = Running
    /\ HasRun("==")
    /\ saved = << <<Quote(<<I64(1), Quote(<<F64(2)>>)>>),
                    Quote(<<I64(1), Quote(<<F64(3)>>)>>)>> >>
    /\ st.stack = <<Boolean(FALSE)>>

\* the standard ordering of two numbers
Ordered(word, x, y) ==
    CASE word = "<" -> x < y
      [] word = "<=" -> x <= y
      [] word = ">" -> x > y
      [] word = ">=" -> x >= y

\* C17: <, <=, > and >= on two numbers of either variant agree with the
\* ordering of the numbers they stand for; on equal operands, also of
\* different variants (1 and 1.0), <= and >= are true and < and > false.
C17_NumericOrdering ==
    [][ \A word \in {"<", "<=", ">", ">="} :
            Ran(word) =>
                /\ Yields(Ordered(word, Twice(Left), Twice(Right)))
                /\ Twice(Left) = Twice(Right) =>
                      Yields(word \in {"<=", ">="})
      ]_vars

\* 1.5 2 < gave true
C17_Witness ==
    /\ exit = Running
    /\ HasRun("<")
    /\ saved = << <<F64(3), I64(2)>> >>
    /\ st.stack = <<Boolean(TRUE)>>

\* C18: on Booleans, numbers of the same or of different variants and
\* Strings, != yields true exactly when == yields false; not yields false
\* on true and true on false.
C18_NotEqualComplements ==
    [][ /\ (Ran("==") /\ Left.t # "Quote") =>
              Yields(Norm(Left) = Norm(Right))
        /\ (Ran("!=") /\ Left.t # "Quote") =>
              /\ Yields(Norm(Left) # Norm(Right))
              /\ Yields(~Top(operate("==", st).stack).v)
        /\ Ran("not") =>
              /\ exit' = Running
              /\ Right = Boolean(TRUE) =>
                    st'.stack = Rest(st.stack) \o <<Boolean(FALSE)>>
              /\ Right = Boolean(FALSE) =>
                    st'.stack = Rest(st.stack) \o <<Boolean(TRUE)>>
      ]_vars

\* 1.0 1 != gave false
C18_Witness ==
    /\ exit = Running
    /\ HasRun("!=")
    /\ saved = << <<F64(2), I64(1)>> >>
    /\ st.stack = <<Boolean(FALSE)>>

\* C19: do on a stack whose top is a Quote q yields the state obtained by
\* removing q and running q's elements against the remaining state: what q
\* pushes and pops is pushed on and popped from the caller's stack, a def
\* or undef made by q persists in the caller's dictionary, and the context
\* is the caller's.
C19_DoIsInlineCall ==
    [][ (Ran("do") /\ st.stack # <<>> /\ Top(st.stack).t = "Quote") =>
        LET q == Top(st.stack)
            below == Rest(st.stack)
        IN  /\ Produced(run_quote(q.v, replace_stack(st, below), 1))
            /\ exit' = Running => st'.context = st.context
            /\ q = NameQuote =>
                  /\ exit' = Running
                  /\ st' = replace_stack(st, below \o <<String("foo")>>)
            /\ (q = AskQuote /\ below # <<>> /\ Top(below).t = "String") =>
                  /\ exit' = Running
                  /\ st' = replace_stack(st, Rest(below) \o
                        <<Boolean(Top(below).v \in DOMAIN st.dictionary)>>)
            /\ q = DefQuote =>
                  /\ exit' = Running
                  /\ st'.stack = below \o <<Boolean(TRUE)>>
                  /\ "foo" \in DOMAIN st'.dictionary
                  /\ st'.dictionary["foo"].action.quote = <<>>
            /\ (q = UndefQuote /\ "foo" \in DOMAIN st.dictionary) =>
                  /\ exit' = Running
                  /\ st'.stack = below \o <<Boolean(FALSE)>>
                  /\ "foo" \notin DOMAIN st'.dictionary
      ]_vars

\* do ran a quote that defined foo, which was not bound before, and foo
\* is bound in the caller's dictionary
C19_Witness ==
    /\ exit = Running
    /\ HasRun("do")
    /\ "foo" \notin defined
    /\ "foo" \in DOMAIN st.dictionary
    /\ st.stack = <<String("foo"), Boolean(TRUE)>>

(* String literals.                                                       *)

\* the content the text signals build: a space and the text for each word,
\* the text alone for each exact fragment
RECURSIVE Joined(_)
Joined(tokens) ==
    IF tokens = <<>> THEN ""
    ELSE Joined(Rest(tokens)) \o
         (IF Top(tokens).t = "Text" THEN " " ELSE "") \o Top(tokens).v

\* C20: from stack S and context C, enter-string, the appends and
\* exit-string give context C and S followed by one String holding, in
\* order, a space and the text for each word appended (the text alone for
\* an exact fragment; nothing when there was no append); while the string
\* is built and after it, S and the dictionary are as they were.
C20_StringLiteral ==
    [][ /\ in_string(st') =>
              /\ st'.stack = literal'.stack \o
                    <<String(Joined(literal'.content))>>
              /\ st'.context = StringContext(literal'.context)
              /\ st'.dictionary = st.dictionary
        /\ (Handled(CloseString) /\ in_string(st)) =>
              /\ exit' = Running
              /\ st' = RailState(literal.stack \o
                                   <<String(Joined(literal.content))>>,
                                 st.dictionary, literal.context)
      ]_vars

\* the words a and a were appended to a string entered above 1 in Main,
\* and the string was exited
C20_Witness ==
    /\ exit = Running
    /\ last = CloseString
    /\ st = RailState(<<I64(1), String(" a a")>>, new_dictionary, Main)

(* Comments.                                                              *)

\* C21: comment mode has no stack effect: enter-comment changes the context
\* only, and exit-comment right after it gives back the state the comment
\* was entered from, with its stack, dictionary and context, at any nesting
\* depth; while the comment is open the stack is the one it was entered on.
C21_CommentHasNoEffect ==
    [][ /\ Handled(OpenComment) =>
              /\ exit' = Running
              /\ st' = RailState(st.stack, st.dictionary, Comment(st.context))
              /\ exit_comment(st') = st
        /\ (exit' = Running /\ in_comment(st')) => st'.stack = Top(saved')
        /\ (Handled(CloseComment) /\ in_comment(st)) =>
              /\ exit' = Running
              /\ st' = RailState(Top(saved), st.dictionary,
                                 st.context.parent_context)
              /\ enter_comment(st') = st
      ]_vars

\* a comment was entered and exited inside a quotation being built above 1,
\* after 1 was pushed in the quotation
C21_Witness ==
    /\ exit = Running
    /\ last = CloseComment
    /\ st = RailState(<<I64(1)>>, new_dictionary,
                      Quotation(Main, <<I64(1)>>))

(* The detached context.                                                  *)

\* the context a chain of parent contexts ends in
RECURSIVE Root(_)
Root(context) ==
    IF context.kind \in Nested THEN Root(context.parent_context)
    ELSE context

\* C22: from the default state (Main, empty stack), whatever quotations,
\* strings and comments are entered and exited and whatever is evaluated,
\* the state threaded through the token stream is never in the Detached
\* context and its chain of parent contexts ends in Main; the child state
\* doin builds is in the Detached context, stays in it while its quote
\* runs, and is not the state doin returns: doin returns the caller's
\* state with the child's stack pushed as one quote.
C22_DetachedStaysInside ==
    [][ /\ st'.context # None
        /\ Root(st'.context) = Main
        /\ ( /\ Ran("doin")
             /\ Len(st.stack) >= 2
             /\ Top(st.stack).t = "Quote"
             /\ Top(Rest(st.stack)).t = "Quote" ) =>
            LET child == contextless_child(st, Top(Rest(st.stack)).v)
                ended == run_quote(Top(st.stack).v, child, 1)
            IN  /\ child.context = None
                /\ ~IsFatal(ended) =>
                      /\ ended.context = None
                      /\ exit' = Running
                      /\ st' # ended
                      /\ st' = replace_stack(st,
                            push(Rest(Rest(st.stack)), Quote(ended.stack)))
      ]_vars

\* doin ran the body [ ] on the working stack [ 1 ] inside a quotation
\* being built, and the quotation is still open
C22_Witness ==
    /\ exit = Running
    /\ HasRun("doin")
    /\ st = RailState(<<Quote(<<I64(1)>>)>>, new_dictionary,
                      Quotation(Main, <<>>))

(* Termination.                                                           *)

\* the evaluation opened more nested run_quote calls than the model
\* follows, and has returned nothing
Diverged == Fatal("diverged", "")

\* the state after the first n elements of a quote of literals were pushed,
\* one at a time
RECURSIVE Pushed(_, _, _)
Pushed(quote, n, state) ==
    IF n = 0 THEN state
    ELSE LET before == Pushed(quote, n - 1, state)
         IN  RailState(Append(before.stack, quote[n]), before.dictionary,
                       before.context)

\* foo is bound to [ foo true ], which invokes foo before anything else
SelfCalling ==
    /\ "foo" \in DOMAIN st.dictionary
    /\ st.dictionary["foo"].action.kind = "Quotation"
    /\ st.dictionary["foo"].action.quote = <<Command("foo"), Boolean(TRUE)>>

\* C23: the evaluator has no recursion limit: invoking a user word whose
\* quote unconditionally invokes the word again yields no result state and
\* none of the evaluator's fatal errors, the calls nesting deeper than
\* every depth followed, from whatever depth the invocation starts; running
\* a quote with no Command elements opens no nested call and ends after one
\* push per element.
C23_NoRecursionLimit ==
    [][ /\ (Ran("foo") /\ SelfCalling) =>
              /\ Produced(Diverged)
              /\ \A depth \in 0..MaxCallDepth :
                    run_quote(<<Command("foo")>>, st, depth) = Diverged
        /\ ( /\ last'.t = "Quote"
             /\ \A i \in 1..Len(last'.v) : last'.v[i].t # "Command" ) =>
              /\ exit' = Running
              /\ st' = Pushed(last'.v, Len(last'.v), st)
              /\ \A depth \in 0..MaxCallDepth :
                    run_quote(last'.v, st, depth) = st'
      ]_vars

\* foo, bound to [ foo true ], was invoked above three values and has not
\* returned
C23_Witness ==
    /\ exit = Diverged
    /\ HasRun("foo")
    /\ SelfCalling
    /\ Len(st.stack) = 3

(* The context of an evaluation.                                          *)

\* the chain of a context, innermost first: each kind with the parent stack
\* it saved
RECURSIVE Chain(_)
Chain(context) ==
    IF context.kind = "Quotation"
    THEN <<[kind |-> context.kind, parent_stack |-> context.parent_stack]>>
         \o Chain(context.parent_context)
    ELSE IF context.kind \in Nested
    THEN <<[kind |-> context.kind, parent_stack |-> <<>>]>>
         \o Chain(context.parent_context)
    ELSE <<[kind |-> context.kind, parent_stack |-> <<>>]>>

\* C24: evaluation never enters or leaves a lexical mode: whatever quote of
\* literals, user words and the builtins do, doin, opt, def, def? and undef
\* is run, a state that is returned has the context of the state given,
\* with every saved parent context and saved parent stack of the chain.
C24_EvaluationKeepsContext ==
    [][ (last'.t = "Quote" /\ exit' = Running) =>
        /\ st'.context = st.context
        /\ Chain(st'.context) = Chain(st.context)
        /\ ContextDepth(st'.context) = ContextDepth(st.context)
      ]_vars

\* inside two quotations being built, doin ran a body that defined foo in
\* its detached child, and the state returned is inside the two quotations
C24_Witness ==
    /\ exit = Running
    /\ HasRun("doin")
    /\ Top(st.stack) = Quote(<<Boolean(TRUE)>>)
    /\ Chain(st.context) =
          << [kind |-> "Quotation", parent_stack |-> <<EmptyQuote>>],
             [kind |-> "Quotation", parent_stack |-> <<String("foo")>>],
             [kind |-> "Main", parent_stack |-> <<>>] >>

(* A word that rebinds itself.                                            *)

\* C25: an invocation of a user word runs the quote its name was bound to
\* when the Command was looked up: when that quote rebinds or unbinds the
\* name, the elements after the def or undef still come from it and the
\* invocation completes; the next invocation runs the new quote, or is
\* fatal when the name was unbound.
C25_RunsQuoteBoundAtLookup ==
    [][ Ran("foo") =>
        IF "foo" \notin DOMAIN st.dictionary
        THEN exit' = Fatal("undefined", "foo") /\ st' = st
        ELSE
            LET old == st.dictionary["foo"].action.quote
            IN  /\ Produced(run_quote(old, st, 1))
                /\ old = SelfDefQuote.v =>
                      /\ exit' = Running
                      /\ st'.stack = st.stack \o <<I64(1)>>
                      /\ st'.dictionary["foo"].action.quote = <<I64(2)>>
                /\ old = SelfDropQuote.v =>
                      /\ exit' = Running
                      /\ st'.stack = st.stack \o <<I64(1)>>
                      /\ "foo" \notin DOMAIN st'.dictionary
                /\ old = <<I64(2)>> =>
                      /\ exit' = Running
                      /\ st'.stack = st.stack \o <<I64(2)>>
                      /\ st'.dictionary = st.dictionary
      ]_vars

\* foo rebound itself to [ 2 ] and pushed 1; invoked again, it pushed 2
C25_Witness ==
    /\ exit = Running
    /\ HasRun("foo")
    /\ st.stack = <<I64(1), I64(2)>>
    /\ st.dictionary["foo"].action.quote = <<I64(2)>>
    /\ latest = [name \in {"foo"} |-> SelfDefQuote.v]

===========================================================================
